---- MODULE Spec2Model ----
(***************************************************************************)
(* Model of the DSN generator: the address and domain transcoders          *)
(* (split, toASCII, toUnicode, addrSelectIDNA, dnsSelectIDNA), the field    *)
(* encoders (ReportingMTAInfo.WriteTo, RecipientInfo.WriteTo), the report   *)
(* assembler (GenerateDSN and its three part writers) and the relay         *)
(* dispatcher (SendDSN).                                                    *)
(*                                                                         *)
(* A Go string is a sequence of Unicode code points.  An error is the      *)
(* chain of its messages, outermost first (fmt.Errorf with %w); the nil    *)
(* error is the empty chain.                                               *)
(***************************************************************************)
EXTENDS Integers, Sequences, FiniteSets, TLC

VARIABLES
    utf8, envelope, mtaInfo, rcptsInfo, failedHeader, entry,
    pc, idx, out, parts, reportHeader, result, smtpLog, sendResult,
    addrIn, addrOut, rcptIn, rcptOut

vars == <<utf8, envelope, mtaInfo, rcptsInfo, failedHeader, entry,
          pc, idx, out, parts, reportHeader, result, smtpLog, sendResult,
          addrIn, addrOut, rcptIn, rcptOut>>

genVars == <<utf8, envelope, mtaInfo, rcptsInfo, failedHeader, entry,
             pc, idx, out, parts, reportHeader, result, smtpLog, sendResult>>

----------------------------------------------------------------------------
(* Bounds of the model.                                                    *)

\* longest recipient list handed to GenerateDSN / SendDSN
MaxRcpts == 2
\* longest address handed to the address transcoders
MaxAddrLen == 4

----------------------------------------------------------------------------
(* String constants of the program, as code points.                        *)

\* "Godsn"
xMTADefaultName == <<71, 111, 100, 115, 110>>
\* "postmaster"
StrPostmaster == <<112, 111, 115, 116, 109, 97, 115, 116, 101, 114>>
\* "xn--"
StrAcePrefix == <<120, 110, 45, 45>>
\* "dns; "
StrDns == <<100, 110, 115, 59, 32>>
\* "utf8; "
StrUtf8 == <<117, 116, 102, 56, 59, 32>>
\* "rfc822; "
StrRfc822 == <<114, 102, 99, 56, 50, 50, 59, 32>>
\* "smtp; "
StrSmtp == <<115, 109, 116, 112, 59, 32>>
\* "; "
StrSemi == <<59, 32>>
\* "X-"
StrXDash == <<88, 45>>
\* "-Sender"
StrSender == <<45, 83, 101, 110, 100, 101, 114>>
\* "-MsgID"
StrMsgID == <<45, 77, 115, 103, 73, 68>>
\* "Reporting-MTA"
HReportingMTA == <<82, 101, 112, 111, 114, 116, 105, 110, 103, 45, 77, 84, 65>>
\* "Received-From-MTA"
HReceivedFromMTA == <<82, 101, 99, 101, 105, 118, 101, 100, 45, 70, 114, 111, 109, 45, 77, 84, 65>>
\* "Arrival-Date"
HArrivalDate == <<65, 114, 114, 105, 118, 97, 108, 45, 68, 97, 116, 101>>
\* "Last-Attempt-Date"
HLastAttemptDate == <<76, 97, 115, 116, 45, 65, 116, 116, 101, 109, 112, 116, 45, 68, 97, 116, 101>>
\* "Final-Recipient"
HFinalRecipient == <<70, 105, 110, 97, 108, 45, 82, 101, 99, 105, 112, 105, 101, 110, 116>>
\* "Action"
HAction == <<65, 99, 116, 105, 111, 110>>
\* "Status"
HStatus == <<83, 116, 97, 116, 117, 115>>
\* "Diagnostic-Code"
HDiagnosticCode == <<68, 105, 97, 103, 110, 111, 115, 116, 105, 99, 45, 67, 111, 100, 101>>
\* "Remote-MTA"
HRemoteMTA == <<82, 101, 109, 111, 116, 101, 45, 77, 84, 65>>
\* "Date"
HDate == <<68, 97, 116, 101>>
\* "Message-Id"
HMessageId == <<77, 101, 115, 115, 97, 103, 101, 45, 73, 100>>
\* "Content-Transfer-Encoding"
HContentTransferEncoding == <<67, 111, 110, 116, 101, 110, 116, 45, 84, 114, 97, 110, 115, 102, 101, 114, 45, 69, 110, 99, 111, 100, 105, 110, 103>>
\* "Content-Type"
HContentType == <<67, 111, 110, 116, 101, 110, 116, 45, 84, 121, 112, 101>>
\* "Content-Description"
HContentDescription == <<67, 111, 110, 116, 101, 110, 116, 45, 68, 101, 115, 99, 114, 105, 112, 116, 105, 111, 110>>
\* "MIME-Version"
HMIMEVersion == <<77, 73, 77, 69, 45, 86, 101, 114, 115, 105, 111, 110>>
\* "Auto-Submitted"
HAutoSubmitted == <<65, 117, 116, 111, 45, 83, 117, 98, 109, 105, 116, 116, 101, 100>>
\* "To"
HTo == <<84, 111>>
\* "From"
HFrom == <<70, 114, 111, 109>>
\* "Subject"
HSubject == <<83, 117, 98, 106, 101, 99, 116>>
\* "8bit"
V8bit == <<56, 98, 105, 116>>
\* "multipart/report; report-type=delivery-status; boundary="
VMultipartReport == <<109, 117, 108, 116, 105, 112, 97, 114, 116, 47, 114, 101, 112, 111, 114, 116, 59, 32, 114, 101, 112, 111, 114, 116, 45, 116, 121, 112, 101, 61, 100, 101, 108, 105, 118, 101, 114, 121, 45, 115, 116, 97, 116, 117, 115, 59, 32, 98, 111, 117, 110, 100, 97, 114, 121, 61>>
\* "1.0"
VMimeVersion == <<49, 46, 48>>
\* "auto-replied"
VAutoReplied == <<97, 117, 116, 111, 45, 114, 101, 112, 108, 105, 101, 100>>
\* "Undelivered Mail Returned to Sender"
VSubject == <<85, 110, 100, 101, 108, 105, 118, 101, 114, 101, 100, 32, 77, 97, 105, 108, 32, 82, 101, 116, 117, 114, 110, 101, 100, 32, 116, 111, 32, 83, 101, 110, 100, 101, 114>>
\* "message/global-delivery-status"
VGlobalDeliveryStatus == <<109, 101, 115, 115, 97, 103, 101, 47, 103, 108, 111, 98, 97, 108, 45, 100, 101, 108, 105, 118, 101, 114, 121, 45, 115, 116, 97, 116, 117, 115>>
\* "message/delivery-status"
VDeliveryStatus == <<109, 101, 115, 115, 97, 103, 101, 47, 100, 101, 108, 105, 118, 101, 114, 121, 45, 115, 116, 97, 116, 117, 115>>
\* "message/global-headers"
VGlobalHeaders == <<109, 101, 115, 115, 97, 103, 101, 47, 103, 108, 111, 98, 97, 108, 45, 104, 101, 97, 100, 101, 114, 115>>
\* "message/rfc822-headers"
VRfc822Headers == <<109, 101, 115, 115, 97, 103, 101, 47, 114, 102, 99, 56, 50, 50, 45, 104, 101, 97, 100, 101, 114, 115>>
\* "text/plain; charset="utf-8""
VTextPlain == <<116, 101, 120, 116, 47, 112, 108, 97, 105, 110, 59, 32, 99, 104, 97, 114, 115, 101, 116, 61, 34, 117, 116, 102, 45, 56, 34>>
\* "Notification"
VDescNotification == <<78, 111, 116, 105, 102, 105, 99, 97, 116, 105, 111, 110>>
\* "Delivery report"
VDescDeliveryReport == <<68, 101, 108, 105, 118, 101, 114, 121, 32, 114, 101, 112, 111, 114, 116>>
\* "Undelivered message header"
VDescUndelivered == <<85, 110, 100, 101, 108, 105, 118, 101, 114, 101, 100, 32, 109, 101, 115, 115, 97, 103, 101, 32, 104, 101, 97, 100, 101, 114>>
\* "MAILER-DAEMON (Mail Delivery System)"
VMailerDaemon == <<77, 65, 73, 76, 69, 82, 45, 68, 65, 69, 77, 79, 78, 32, 40, 77, 97, 105, 108, 32, 68, 101, 108, 105, 118, 101, 114, 121, 32, 83, 121, 115, 116, 101, 109, 41>>
\* "<>"
VNullSender == <<60, 62>>
\* "bla"
VHelloName == <<98, 108, 97>>
\* "failed"
ActionFailed == <<102, 97, 105, 108, 101, 100>>
\* "delivered"
ActionDelivered == <<100, 101, 108, 105, 118, 101, 114, 101, 100>>

\* '@', '.', '-', ' ', '\t', '\n', '\r' and the first code point outside 7-bit ASCII
ChAt == 64
ChDot == 46
ChHyphen == 45
ChSpace == 32
ChTab == 9
ChLF == 10
ChCR == 13
RuneSelf == 128

NilErr == <<>>
ErrUnicodeMailbox == <<"address: cannot convert the Unicode local-part to the ACE form">>
ErrMissingAtSign == <<"address: missing at-sign">>
ErrEmptyLocalPart == <<"address: empty local-part">>
ErrEmptyDomain == <<"address: empty domain">>
ErrPunycode == <<"idna: invalid label">>

----------------------------------------------------------------------------
(* Package strings / fmt.                                                  *)

RECURSIVE Itoa(_)
\* fmt's %d of a non-negative int
Itoa(n) == IF n < 10 THEN <<48 + n>> ELSE Itoa(n \div 10) \o <<48 + (n % 10)>>

ToLower(c) == IF c >= 65 /\ c <= 90 THEN c + 32 ELSE c

\* strings.EqualFold, on the ASCII letters
EqualFold(s, t) ==
    /\ Len(s) = Len(t)
    /\ \A k \in 1..Len(s) : ToLower(s[k]) = ToLower(t[k])

\* strings.LastIndexByte, 1-based; 0 when the byte is absent (Go's -1)
LastIndexByte(s, c) ==
    LET hits == {k \in 1..Len(s) : s[k] = c}
    IN IF hits = {} THEN 0 ELSE CHOOSE k \in hits : \A h \in hits : h <= k

HasPrefix(s, p) == Len(s) >= Len(p) /\ SubSeq(s, 1, Len(p)) = p

IsSpace(c) == c \in {ChSpace, ChTab, ChLF, ChCR, 11, 12, 133, 160}

RECURSIVE TrimLeft(_)
TrimLeft(s) == IF s # <<>> /\ IsSpace(Head(s)) THEN TrimLeft(Tail(s)) ELSE s

RECURSIVE TrimRight(_)
TrimRight(s) ==
    IF s # <<>> /\ IsSpace(s[Len(s)]) THEN TrimRight(SubSeq(s, 1, Len(s) - 1)) ELSE s

\* strings.TrimSpace
TrimSpace(s) == TrimRight(TrimLeft(s))

\* strings.NewReplacer("\n", " ", "\r", " ").Replace, missing the "\r" pair
newLineReplacer_OnlyLF(s) == [k \in 1..Len(s) |-> IF s[k] = ChLF THEN ChSpace ELSE s[k]]

\* newLineReplacer.Replace: every LF and every CR becomes one space
newLineReplacer(s) ==
    [k \in 1..Len(s) |-> IF s[k] = ChLF \/ s[k] = ChCR THEN ChSpace ELSE s[k]]

IsASCII(s) == \A k \in 1..Len(s) : s[k] < RuneSelf

\* norm.NFC.String on the model's alphabet: u or a followed by U+0308 composes
RECURSIVE NFC(_)
NFC(s) ==
    IF Len(s) < 2 THEN s
    ELSE IF s[1] = 117 /\ s[2] = 776 THEN <<252>> \o NFC(SubSeq(s, 3, Len(s)))
    ELSE IF s[1] = 97 /\ s[2] = 776 THEN <<228>> \o NFC(SubSeq(s, 3, Len(s)))
    ELSE <<s[1]>> \o NFC(Tail(s))

----------------------------------------------------------------------------
(* golang.org/x/net/idna, the Punycode profile used by idna.ToASCII and    *)
(* idna.ToUnicode: labels are split at '.', an "xn--" label is decoded, and *)
(* for ToASCII a non-ASCII label is encoded (RFC 3492).                    *)

PBase == 36
PTMin == 1
PTMax == 26
PSkew == 38
PDamp == 700
PInitialBias == 72

RECURSIVE AdaptLoop(_, _)
AdaptLoop(delta, k) ==
    IF delta > ((PBase - PTMin) * PTMax) \div 2
    THEN AdaptLoop(delta \div (PBase - PTMin), k + PBase)
    ELSE k + ((PBase - PTMin + 1) * delta) \div (delta + PSkew)

adapt(delta, numPoints, firstTime) ==
    LET d == IF firstTime THEN delta \div PDamp ELSE delta \div 2
    IN AdaptLoop(d + d \div numPoints, 0)

encodeDigit(d) == IF d < 26 THEN 97 + d ELSE 48 + (d - 26)

\* the digit value of a code point, -1 when it is no digit
decodeDigit(c) ==
    IF c >= 48 /\ c <= 57 THEN c - 48 + 26
    ELSE IF c >= 65 /\ c <= 90 THEN c - 65
    ELSE IF c >= 97 /\ c <= 122 THEN c - 97
    ELSE -1

Threshold(k, bias) ==
    IF k <= bias THEN PTMin ELSE IF k >= bias + PTMax THEN PTMax ELSE k - bias

RECURSIVE EncodeVarInt(_, _, _)
EncodeVarInt(q, k, bias) ==
    LET t == Threshold(k, bias)
    IN IF q < t THEN <<encodeDigit(q)>>
       ELSE <<encodeDigit(t + ((q - t) % (PBase - t)))>>
            \o EncodeVarInt((q - t) \div (PBase - t), k + PBase, bias)

RECURSIVE EncodeInner(_, _, _)
\* the inner loop of encode: one pass over the runes of the label
EncodeInner(s, j, st) ==
    IF j > Len(s) THEN st
    ELSE IF s[j] < st.n THEN EncodeInner(s, j + 1, [st EXCEPT !.delta = @ + 1])
    ELSE IF s[j] = st.n
         THEN EncodeInner(s, j + 1,
                  [st EXCEPT !.o = @ \o EncodeVarInt(st.delta, PBase, st.bias),
                             !.bias = adapt(st.delta, st.h + 1, st.h = st.b),
                             !.delta = 0,
                             !.h = @ + 1])
    ELSE EncodeInner(s, j + 1, st)

\* the smallest rune of the label that is at least n
MinRuneFrom(s, n) ==
    CHOOSE c \in {s[j] : j \in 1..Len(s)} :
        /\ c >= n
        /\ \A j \in 1..Len(s) : s[j] >= n => c <= s[j]

RECURSIVE EncodeOuter(_, _)
RECURSIVE EncodePass(_, _, _)
RECURSIVE EncodeAdvance(_, _)

\* the outer loop of encode, until every rune is handled
EncodeOuter(s, st) ==
    IF st.h >= Len(s) THEN st.o ELSE EncodePass(s, st, MinRuneFrom(s, st.n))

EncodePass(s, st, m) ==
    EncodeAdvance(s, EncodeInner(s, 1,
        [st EXCEPT !.delta = @ + (m - st.n) * (st.h + 1), !.n = m]))

EncodeAdvance(s, st) == EncodeOuter(s, [st EXCEPT !.delta = @ + 1, !.n = @ + 1])

PunyEncodeBasic(s, basic) ==
    StrAcePrefix \o
    EncodeOuter(s, [n |-> RuneSelf, delta |-> 0, bias |-> PInitialBias,
                    h |-> Len(basic), b |-> Len(basic),
                    o |-> IF basic # <<>> THEN basic \o <<ChHyphen>> ELSE basic])

\* punycode encode(acePrefix, s)
PunyEncode(s) == PunyEncodeBasic(s, SelectSeq(s, LAMBDA c : c < RuneSelf))

\* the digit at pos taken into the variable-length integer: [ok, i, pos]
RECURSIVE DecodeVarInt(_, _, _, _, _, _)
RECURSIVE DecodeDigitAt(_, _, _, _, _, _, _)
DecodeVarInt(e, pos, cur, w, k, bias) ==
    IF pos > Len(e) \/ decodeDigit(e[pos]) < 0 THEN [ok |-> FALSE, i |-> cur, pos |-> pos]
    ELSE DecodeDigitAt(e, pos, cur, w, k, bias, decodeDigit(e[pos]))

DecodeDigitAt(e, pos, cur, w, k, bias, digit) ==
    IF digit < Threshold(k, bias) THEN [ok |-> TRUE, i |-> cur + digit * w, pos |-> pos + 1]
    ELSE DecodeVarInt(e, pos + 1, cur + digit * w, w * (PBase - Threshold(k, bias)),
                      k + PBase, bias)

InsertAt(s, k, c) == SubSeq(s, 1, k) \o <<c>> \o SubSeq(s, k + 1, Len(s))

RECURSIVE DecodeLoop(_, _, _, _, _, _)
RECURSIVE DecodeInsert(_, _, _, _, _, _)

\* the loop of decode: one rune per variable-length integer
DecodeLoop(e, pos, cur, n, bias, o) ==
    IF pos > Len(e) THEN [ok |-> TRUE, val |-> o]
    ELSE DecodeInsert(e, cur, n, bias, o, DecodeVarInt(e, pos, cur, 1, PBase, bias))

DecodeInsert(e, cur, n, bias, o, v) ==
    IF ~v.ok THEN [ok |-> FALSE, val |-> <<>>]
    ELSE DecodeLoop(e, v.pos, (v.i % (Len(o) + 1)) + 1, n + v.i \div (Len(o) + 1),
                    adapt(v.i - cur, Len(o) + 1, cur = 0),
                    InsertAt(o, v.i % (Len(o) + 1), n + v.i \div (Len(o) + 1)))

PunyDecodeAt(e, p) ==
    IF e = <<>> THEN [ok |-> TRUE, val |-> <<>>]
    ELSE IF p = 1 THEN [ok |-> FALSE, val |-> <<>>]
    ELSE IF p = Len(e) THEN [ok |-> TRUE, val |-> SubSeq(e, 1, Len(e) - 1)]
    ELSE DecodeLoop(e, p + 1, 0, RuneSelf, PInitialBias, SubSeq(e, 1, p - 1))

\* punycode decode(encoded): [ok, val]
PunyDecode(e) == PunyDecodeAt(e, LastIndexByte(e, ChHyphen))

\* strings.IndexByte, 1-based; 0 when the byte is absent
IndexByte(s, c) ==
    IF \A k \in 1..Len(s) : s[k] # c THEN 0
    ELSE CHOOSE k \in 1..Len(s) : s[k] = c /\ \A h \in 1..(k - 1) : s[h] # c

RECURSIVE SplitLabels(_)
RECURSIVE SplitAtDot(_, _)
\* the labels of a domain, split at every '.'
SplitLabels(s) == SplitAtDot(s, IndexByte(s, ChDot))

SplitAtDot(s, d) ==
    IF d = 0 THEN <<s>>
    ELSE <<SubSeq(s, 1, d - 1)>> \o SplitLabels(SubSeq(s, d + 1, Len(s)))

RECURSIVE JoinLabels(_)
JoinLabels(ls) ==
    IF Len(ls) = 1 THEN ls[1] ELSE ls[1] \o <<ChDot>> \o JoinLabels(Tail(ls))

\* an "xn--" label decoded: [ok, val]
DecodeLabel(l) ==
    IF HasPrefix(l, StrAcePrefix)
    THEN PunyDecode(SubSeq(l, Len(StrAcePrefix) + 1, Len(l)))
    ELSE [ok |-> TRUE, val |-> l]

\* a label that does not decode is kept as it is
DecodedOrKept(l, d) == IF d.ok THEN d.val ELSE l

\* for ToASCII a label that is not ASCII is encoded
ToALabel(toASCII, l) == IF toASCII /\ ~IsASCII(l) THEN PunyEncode(l) ELSE l

IdnaLabels(ls, toASCII) ==
    [val |-> JoinLabels([k \in 1..Len(ls) |->
                            ToALabel(toASCII, DecodedOrKept(ls[k], DecodeLabel(ls[k])))]),
     err |-> IF \E k \in 1..Len(ls) : ~DecodeLabel(ls[k]).ok THEN ErrPunycode ELSE NilErr]

\* Profile.process of the Punycode profile: [val, err]
IdnaProcess(s, toASCII) == IdnaLabels(SplitLabels(s), toASCII)

IdnaToASCII(s) == IdnaProcess(s, TRUE)
IdnaToUnicode(s) == IdnaProcess(s, FALSE)

----------
(* Address and domain transcoders.                                         *)

splitAt(addr, indx) ==
    IF EqualFold(addr, StrPostmaster)
    THEN [mailbox |-> addr, domain |-> <<>>, err |-> NilErr]
    ELSE IF indx = 0
    THEN [mailbox |-> <<>>, domain |-> <<>>, err |-> ErrMissingAtSign]
    ELSE IF indx = 1
    THEN [mailbox |-> <<>>, domain |-> <<>>, err |-> ErrEmptyLocalPart]
    ELSE IF indx = Len(addr)
    THEN [mailbox |-> <<>>, domain |-> <<>>, err |-> ErrEmptyDomain]
    ELSE [mailbox |-> SubSeq(addr, 1, indx - 1),
          domain |-> SubSeq(addr, indx + 1, Len(addr)), err |-> NilErr]

\* split: [mailbox, domain, err], the address cut at its last '@'
split(addr) == splitAt(addr, LastIndexByte(addr, ChAt))

\* the loop of toASCII over the local-part: some rune satisfies ch > 128
UnicodeMailbox(mbox) == \E k \in 1..Len(mbox) : mbox[k] > 128

\* toASCII once the domain went through idna.ToASCII
toASCIIDomain(addr, s, a) ==
    IF a.err # NilErr THEN [val |-> addr, err |-> a.err]
    ELSE [val |-> s.mailbox \o <<ChAt>> \o a.val, err |-> NilErr]

\* toASCII once the address is split
toASCIISplit(addr, s) ==
    IF s.err # NilErr THEN [val |-> addr, err |-> s.err]
    ELSE IF UnicodeMailbox(s.mailbox) THEN [val |-> addr, err |-> ErrUnicodeMailbox]
    ELSE IF s.domain = <<>> THEN [val |-> s.mailbox, err |-> NilErr]
    ELSE toASCIIDomain(addr, s, IdnaToASCII(s.domain))

\* toASCII: [val, err]
toASCII(addr) == toASCIISplit(addr, split(addr))

\* toUnicode once the domain went through idna.ToUnicode
toUnicodeDomain(addr, s, u) ==
    IF u.err # NilErr THEN [val |-> NFC(addr), err |-> u.err]
    ELSE [val |-> s.mailbox \o <<ChAt>> \o NFC(u.val), err |-> NilErr]

\* toUnicode once the address is split
toUnicodeSplit(addr, s) ==
    IF s.err # NilErr THEN [val |-> NFC(addr), err |-> s.err]
    ELSE IF s.domain = <<>> THEN [val |-> s.mailbox, err |-> NilErr]
    ELSE toUnicodeDomain(addr, s, IdnaToUnicode(s.domain))

\* toUnicode: [val, err]
toUnicode(addr) == toUnicodeSplit(addr, split(addr))

addrSelectIDNA(ulabel, addr) == IF ulabel THEN toUnicode(addr) ELSE toASCII(addr)

\* the ulabel branch of dnsSelectIDNA: the NFC form of idna.ToUnicode's result
dnsUnicode(u) == [val |-> NFC(u.val), err |-> u.err]

dnsSelectIDNA(ulabel, domain) ==
    IF ulabel THEN dnsUnicode(IdnaToUnicode(domain)) ELSE IdnaToASCII(domain)

----------------------------------------------------------------------------
(* time.Time: whole seconds and nanoseconds since the zero time.           *)

ZeroTime == [sec |-> 0, nsec |-> 0]

IsZero(t) == t.sec = 0 /\ t.nsec = 0

\* t.Truncate(time.Second)
Truncate(t) == [sec |-> t.sec, nsec |-> 0]

\* t.Format(timeLayout): the layout has no fractional seconds
FormatTime(t) == Itoa(t.sec)

\* t.String(), as the text template renders a time
TimeString(t) ==
    IF t.nsec = 0 THEN Itoa(t.sec) ELSE Itoa(t.sec) \o <<ChDot>> \o Itoa(t.nsec)

\* time.Now() of the run
Now == [sec |-> 9, nsec |-> 0]

----------------------------------------------------------------------------
(* textproto.Header of go-message (go.mod pins v0.13.0).  The header keeps  *)
(* its fields in the order of the Add calls, the newest last; Add puts a    *)
(* field at the top of the header, so WriteHeader writes the fields from    *)
(* the newest to the oldest.  Key canonicalisation and line folding are     *)
(* not modelled: a field is the (key, value) pair handed to Add.            *)

EmptyHeader == <<>>

HeaderAdd(h, k, v) == Append(h, [k |-> k, v |-> v])

\* Header.Get: the value of the topmost field with this key, "" when none
HeaderGet(h, k) ==
    LET hits == {j \in 1..Len(h) : h[j].k = k}
    IN IF hits = {} THEN <<>>
       ELSE h[CHOOSE j \in hits : \A g \in hits : g <= j].v

\* textproto.WriteHeader: the fields in the order they are written
WriteHeader(h) == [j \in 1..Len(h) |-> h[Len(h) + 1 - j]]

----------------------------------------------------------------------------
(* Field encoders.                                                         *)

ErrReportingMTAMandatory == <<"dsn: Reporting-MTA field is mandatory">>
ErrFinalRecipientRequired == <<"dsn: Final-Recipient is required">>
ErrActionRequired == <<"dsn: Action is required">>
ErrStatusRequired == <<"dsn: Status is required">>
ErrWrite == <<"write: the output sink refused the write">>

ErrConvert(field, cause) ==
    <<"dsn: cannot convert " \o field \o " to a suitable representation">> \o cause

\* "X-" + strings.TrimSpace(name), the name defaulted when empty
XHeaderPrefix(name) ==
    StrXDash \o TrimSpace(IF name = <<>> THEN xMTADefaultName ELSE name)

\* the address tag, stuck at the ASCII family
AddrTag_AlwaysRfc822(u) == StrRfc822

\* the tag of an address-typed field: "utf8; " or "rfc822; "
AddrTag(u) == IF u THEN StrUtf8 ELSE StrRfc822

\* the presence test of Last-Attempt-Date, on the field's own timestamp
LastAttemptDatePresent_Own(info) == ~IsZero(info.LastAttemptDate)

\* the presence test of Last-Attempt-Date
LastAttemptDatePresent(info) == ~IsZero(info.ArrivalDate)

\* ReportingMTAInfo.WriteTo up to its final write: [h, err]
ReportingMTAInfoWriteTo(u, info) ==
    LET reportingMTA == dnsSelectIDNA(u, info.ReportingMTA)
        h1 == HeaderAdd(EmptyHeader, HReportingMTA, StrDns \o reportingMTA.val)
        xHeaderPrefix == XHeaderPrefix(info.XMTAName)
        receivedFromMTA == dnsSelectIDNA(u, info.ReceivedFromMTA)
        h2 == IF info.ReceivedFromMTA # <<>>
              THEN HeaderAdd(h1, HReceivedFromMTA, StrDns \o receivedFromMTA.val)
              ELSE h1
        sender == addrSelectIDNA(u, info.XSender)
        h3 == IF info.XSender # <<>>
              THEN HeaderAdd(h2, xHeaderPrefix \o StrSender, AddrTag(u) \o sender.val)
              ELSE h2
        h4 == IF info.XMessageID # <<>>
              THEN HeaderAdd(h3, xHeaderPrefix \o StrMsgID, info.XMessageID)
              ELSE h3
        h5 == IF ~IsZero(info.ArrivalDate)
              THEN HeaderAdd(h4, HArrivalDate, FormatTime(info.ArrivalDate))
              ELSE h4
        h6 == IF LastAttemptDatePresent(info)
              THEN HeaderAdd(h5, HLastAttemptDate, FormatTime(info.LastAttemptDate))
              ELSE h5
    IN IF info.ReportingMTA = <<>>
       THEN [h |-> EmptyHeader, err |-> ErrReportingMTAMandatory]
       ELSE IF reportingMTA.err # NilErr
       THEN [h |-> EmptyHeader, err |-> ErrConvert("Reporting-MTA", reportingMTA.err)]
       ELSE IF info.ReceivedFromMTA # <<>> /\ receivedFromMTA.err # NilErr
       THEN [h |-> EmptyHeader,
             err |-> ErrConvert("Received-From-MTA", receivedFromMTA.err)]
       ELSE IF info.XSender # <<>> /\ sender.err # NilErr
       THEN [h |-> EmptyHeader, err |-> ErrConvert("X-Sender", sender.err)]
       ELSE [h |-> h6, err |-> NilErr]

\* DiagnosticCode: the nil error, a *smtp.SMTPError, or any other error
NoDiagnostic == [kind |-> "nil", code |-> 0, enh |-> <<0, 0, 0>>, msg |-> <<>>]
SMTPError(code, enh, msg) == [kind |-> "smtp", code |-> code, enh |-> enh, msg |-> msg]
PlainError(msg) == [kind |-> "plain", code |-> 0, enh |-> <<0, 0, 0>>, msg |-> msg]

\* fmt's %v of the diagnostic: its Error() text, "<nil>" for the nil error
DiagText(d) == IF d.kind = "nil" THEN <<60, 110, 105, 108, 62>> ELSE d.msg

\* fmt.Sprintf("%d.%d.%d", ...)
FormatCode(enh) ==
    Itoa(enh[1]) \o <<ChDot>> \o Itoa(enh[2]) \o <<ChDot>> \o Itoa(enh[3])

\* the Diagnostic-Code step of RecipientInfo.WriteTo: [h, panic]
AddDiagnosticCode(u, info, h) ==
    IF info.DiagnosticCode.kind = "smtp"
    THEN [h |-> HeaderAdd(h, HDiagnosticCode,
                    StrSmtp \o Itoa(info.DiagnosticCode.code) \o <<ChSpace>>
                    \o FormatCode(info.DiagnosticCode.enh) \o <<ChSpace>>
                    \o newLineReplacer(info.DiagnosticCode.msg)),
          panic |-> FALSE]
    ELSE IF u
    THEN IF info.DiagnosticCode.kind = "nil"
         \* Error() called on the nil interface value
         THEN [h |-> h, panic |-> TRUE]
         ELSE [h |-> HeaderAdd(h, HDiagnosticCode,
                         XHeaderPrefix(info.xMTAName) \o StrSemi
                         \o newLineReplacer(info.DiagnosticCode.msg)),
               panic |-> FALSE]
    ELSE [h |-> h, panic |-> FALSE]

\* RecipientInfo.WriteTo up to its final write: [h, err, panic]
RecipientInfoWriteTo(u, info) ==
    LET finalRcpt == addrSelectIDNA(u, info.FinalRecipient)
        h1 == HeaderAdd(EmptyHeader, HFinalRecipient, AddrTag(u) \o finalRcpt.val)
        h2 == HeaderAdd(h1, HAction, info.Action)
        h3 == HeaderAdd(h2, HStatus, FormatCode(info.Status))
        d == AddDiagnosticCode(u, info, h3)
        remoteMTA == dnsSelectIDNA(u, info.RemoteMTA)
        h5 == IF info.RemoteMTA # <<>>
              THEN HeaderAdd(d.h, HRemoteMTA, StrDns \o remoteMTA.val)
              ELSE d.h
        fail(e) == [h |-> EmptyHeader, err |-> e, panic |-> FALSE]
    IN IF info.FinalRecipient = <<>> THEN fail(ErrFinalRecipientRequired)
       ELSE IF finalRcpt.err # NilErr
       THEN fail(ErrConvert("Final-Recipient", finalRcpt.err))
       ELSE IF info.Action = <<>> THEN fail(ErrActionRequired)
       ELSE IF info.Status[1] = 0 THEN fail(ErrStatusRequired)
       ELSE IF d.panic THEN [h |-> EmptyHeader, err |-> NilErr, panic |-> TRUE]
       ELSE IF info.RemoteMTA # <<>> /\ remoteMTA.err # NilErr
       THEN fail(ErrConvert("Remote-MTA", remoteMTA.err))
       ELSE [h |-> h5, err |-> NilErr, panic |-> FALSE]

----------------------------------------------------------------------------
(* Inputs of the model.                                                    *)

\* the sample strings of the inputs
Sample ==
    [DomASCII |-> <<97, 46, 100, 101>>,                 \* "a.de"
     DomUnicode |-> <<252, 46, 100, 101>>,              \* "ü.de"
     DomDecomposed |-> <<117, 776, 46, 100, 101>>,      \* "u" U+0308 ".de", not NFC
     DomBadACE |-> <<120, 110, 45, 45, 33>>,            \* "xn--!", no valid A-label
     AddrUnicodeDomain |-> <<97, 64, 252, 46, 100, 101>>,  \* "a@ü.de"
     AddrUnicodeLocal |-> <<252, 64, 97, 46, 100, 101>>,   \* "ü@a.de"
     LabelMx |-> <<32, 77, 120>>,                       \* " Mx"
     StrId |-> <<105, 100>>,                            \* "id"
     MsgCRLF |-> <<120, 13, 10, 121>>,                  \* "x\r\ny"
     MsgLF |-> <<120, 10, 121>>]                        \* "x\ny"

\* the boundary of the multipart writer: "BOUNDARY"
StrBoundary == <<66, 79, 85, 78, 68, 65, 82, 89>>

Times == {ZeroTime, [sec |-> 5, nsec |-> 6]}

\* MsgID "m1", From "f@a.de", To "t@a.de"
Envelopes ==
    {[MsgID |-> <<109, 49>>, From |-> <<102, 64, 97, 46, 100, 101>>,
      To |-> <<116, 64, 97, 46, 100, 101>>]}

MtaInfos ==
    [ReportingMTA : {<<>>, Sample.DomUnicode, Sample.DomBadACE},
     ReceivedFromMTA : {<<>>, Sample.DomDecomposed},
     XMTAName : {<<>>, Sample.LabelMx},
     XSender : {<<>>, Sample.AddrUnicodeDomain, Sample.AddrUnicodeLocal},
     XMessageID : {<<>>, Sample.StrId},
     ArrivalDate : Times,
     LastAttemptDate : Times]

\* the reporting-MTA records with every field set and convertible
FullMtaInfos ==
    {m \in MtaInfos :
        /\ m.ReportingMTA = Sample.DomUnicode /\ m.ReceivedFromMTA # <<>>
        /\ m.XSender = Sample.AddrUnicodeDomain /\ m.XMessageID # <<>>
        /\ ~IsZero(m.ArrivalDate) /\ ~IsZero(m.LastAttemptDate)}

BaseRcpt ==
    [FinalRecipient |-> Sample.AddrUnicodeDomain, RemoteMTA |-> Sample.DomASCII,
     Action |-> ActionFailed, Status |-> <<5, 1, 1>>,
     DiagnosticCode |-> SMTPError(550, <<5, 1, 1>>, Sample.MsgCRLF), xMTAName |-> <<>>]

\* the recipient of TestGenerateDSN: delivered, 2.0.0, no diagnostic code
DeliveredRcpt ==
    [BaseRcpt EXCEPT !.Action = ActionDelivered, !.Status = <<2, 0, 0>>,
                     !.DiagnosticCode = NoDiagnostic]

\* the base recipient and the recipients that differ from it in one field
RcptInfos ==
    {BaseRcpt, DeliveredRcpt}
    \cup {[BaseRcpt EXCEPT !.FinalRecipient = f] : f \in {<<>>, Sample.AddrUnicodeLocal}}
    \cup {[BaseRcpt EXCEPT !.Action = <<>>], [BaseRcpt EXCEPT !.Status = <<0, 0, 0>>],
          [BaseRcpt EXCEPT !.DiagnosticCode = PlainError(Sample.MsgLF)],
          [BaseRcpt EXCEPT !.RemoteMTA = <<>>]}

SeqsUpTo(S, n) == UNION {[1..k -> S] : k \in 0..n}

\* the original message's header block
FailedHeaders == {EmptyHeader, HeaderAdd(EmptyHeader, HSubject, Sample.StrId)}

\* every reporting-MTA record with no or one recipient, and the full
\* reporting-MTA records with every recipient list
GenInputs ==
    (MtaInfos \X SeqsUpTo({BaseRcpt}, 1)) \cup (FullMtaInfos \X SeqsUpTo(RcptInfos, MaxRcpts))

----------------------------------------------------------------------------
(* The output sink and the multipart writer.  The sink holds the chunks     *)
(* written to it, each written whole or refused: "part" is a boundary line  *)
(* with a part header, "notice" and "line" the text of the human-readable  *)
(* part, "block" a delivery-status field block with its blank line,        *)
(* "original" the original header block, "end" the closing boundary line.  *)

Chunk(kind, fields, text) == [kind |-> kind, fields |-> fields, text |-> text]

\* a caller's sink may refuse any write; the bytes.Buffer of SendDSN never does
SinkOutcomes == IF entry = "SendDSN" THEN {TRUE} ELSE BOOLEAN

Running == [state |-> "running", hdr |-> EmptyHeader, err |-> NilErr]
GenReturn(hdr, err) == [state |-> "returned", hdr |-> hdr, err |-> err]
GenPanic == [state |-> "panicked", hdr |-> EmptyHeader, err |-> NilErr]

SendRunning == [state |-> "running", err |-> NilErr]

----------------------------------------------------------------------------
(* GenerateDSN.                                                            *)

Init ==
    /\ utf8 \in BOOLEAN
    /\ entry \in {"GenerateDSN", "SendDSN"}
    /\ envelope \in Envelopes
    /\ \E in \in GenInputs : mtaInfo = in[1] /\ rcptsInfo = in[2]
    /\ failedHeader \in FailedHeaders
    /\ pc = "start"
    /\ idx = 1
    /\ out = <<>>
    /\ parts = <<>>
    /\ reportHeader = EmptyHeader
    /\ result = Running
    /\ smtpLog = <<>>
    /\ sendResult = SendRunning
    /\ addrIn = <<>> /\ addrOut = <<>>
    /\ rcptIn = <<>> /\ rcptOut = <<>>

\* the top-level header of the report
ReportHeader(env) ==
    LET h1 == HeaderAdd(EmptyHeader, HDate, FormatTime(Now))
        h2 == HeaderAdd(h1, HMessageId, env.MsgID)
        h3 == HeaderAdd(h2, HContentTransferEncoding, V8bit)
        h4 == HeaderAdd(h3, HContentType, VMultipartReport \o StrBoundary)
        h5 == HeaderAdd(h4, HMIMEVersion, VMimeVersion)
        h6 == HeaderAdd(h5, HAutoSubmitted, VAutoReplied)
        h7 == HeaderAdd(h6, HTo, env.To)
        h8 == HeaderAdd(h7, HFrom, env.From)
    IN HeaderAdd(h8, HSubject, VSubject)

HumanHeader ==
    HeaderAdd(HeaderAdd(HeaderAdd(EmptyHeader, HContentTransferEncoding, V8bit),
                        HContentType, VTextPlain),
              HContentDescription, VDescNotification)

MachineHeader(u) ==
    HeaderAdd(HeaderAdd(EmptyHeader, HContentType,
                        IF u THEN VGlobalDeliveryStatus ELSE VDeliveryStatus),
              HContentDescription, VDescDeliveryReport)

PartHeader(u) ==
    HeaderAdd(HeaderAdd(HeaderAdd(EmptyHeader, HContentDescription, VDescUndelivered),
                        HContentType, IF u THEN VGlobalHeaders ELSE VRfc822Headers),
              HContentTransferEncoding, V8bit)

\* GenerateDSN goes on to the original-headers part without the machine part
AfterHumanReadablePart_SkipMachine(err) == IF err # NilErr THEN "close" ELSE "headers"

\* GenerateDSN after writeHumanReadablePart: return on error, else the machine part
AfterHumanReadablePart(err) == IF err # NilErr THEN "close" ELSE "machine"

\* GenerateDSN after writeMachineReadablePart: return on error, else writeHeader
AfterMachineReadablePart(err) == IF err # NilErr THEN "close" ELSE "headers"

\* SendDSN sets the envelope sender; GenerateDSN builds the top-level header
GenStart ==
    /\ pc = "start"
    /\ envelope' = IF entry = "SendDSN"
                   THEN [envelope EXCEPT !.From = VMailerDaemon]
                   ELSE envelope
    /\ reportHeader' = ReportHeader(envelope')
    /\ pc' = "human"
    /\ UNCHANGED <<utf8, mtaInfo, rcptsInfo, failedHeader, entry, idx, out, parts,
                   result, smtpLog, sendResult, addrIn, addrOut, rcptIn, rcptOut>>

\* writeHumanReadablePart: CreatePart
HumanCreatePart ==
    /\ pc = "human"
    /\ \E ok \in SinkOutcomes :
          IF ok
          THEN /\ out' = Append(out, Chunk("part", WriteHeader(HumanHeader), <<>>))
               /\ parts' = Append(parts, "human")
               /\ pc' = "humanText"
               /\ UNCHANGED result
          ELSE /\ result' = GenReturn(EmptyHeader, ErrWrite)
               /\ pc' = AfterHumanReadablePart(ErrWrite)
               /\ UNCHANGED <<out, parts>>
    /\ UNCHANGED <<utf8, envelope, mtaInfo, rcptsInfo, failedHeader, entry, idx,
                   reportHeader, smtpLog, sendResult, addrIn, addrOut, rcptIn, rcptOut>>

\* writeHumanReadablePart: the notice template, on the truncated timestamps
HumanText ==
    /\ pc = "humanText"
    /\ \E ok \in SinkOutcomes :
          IF ok
          THEN /\ out' = Append(out, Chunk("notice", <<>>,
                              <<mtaInfo.ReportingMTA, mtaInfo.XMessageID,
                                TimeString(Truncate(mtaInfo.ArrivalDate)),
                                TimeString(Truncate(mtaInfo.LastAttemptDate))>>))
               /\ pc' = IF rcptsInfo = <<>> THEN AfterHumanReadablePart(NilErr)
                        ELSE "humanRcpt"
               /\ UNCHANGED result
          ELSE /\ result' = GenReturn(EmptyHeader, ErrWrite)
               /\ pc' = AfterHumanReadablePart(ErrWrite)
               /\ UNCHANGED out
    /\ idx' = 1
    /\ UNCHANGED <<utf8, envelope, mtaInfo, rcptsInfo, failedHeader, entry, parts,
                   reportHeader, smtpLog, sendResult, addrIn, addrOut, rcptIn, rcptOut>>

\* writeHumanReadablePart: one "Delivery to ... failed with error: ..." line
HumanRcptLine ==
    /\ pc = "humanRcpt"
    /\ \E ok \in SinkOutcomes :
          IF ok
          THEN /\ out' = Append(out, Chunk("line", <<>>,
                              <<rcptsInfo[idx].FinalRecipient,
                                DiagText(rcptsInfo[idx].DiagnosticCode)>>))
               /\ pc' = IF idx = Len(rcptsInfo) THEN AfterHumanReadablePart(NilErr)
                        ELSE "humanRcpt"
               /\ idx' = IF idx = Len(rcptsInfo) THEN 1 ELSE idx + 1
               /\ UNCHANGED result
          ELSE /\ result' = GenReturn(EmptyHeader, ErrWrite)
               /\ pc' = AfterHumanReadablePart(ErrWrite)
               /\ UNCHANGED <<out, idx>>
    /\ UNCHANGED <<utf8, envelope, mtaInfo, rcptsInfo, failedHeader, entry, parts,
                   reportHeader, smtpLog, sendResult, addrIn, addrOut, rcptIn, rcptOut>>

\* writeMachineReadablePart: CreatePart
MachineCreatePart ==
    /\ pc = "machine"
    /\ \E ok \in SinkOutcomes :
          IF ok
          THEN /\ out' = Append(out, Chunk("part", WriteHeader(MachineHeader(utf8)), <<>>))
               /\ parts' = Append(parts, "machine")
               /\ pc' = "mta"
               /\ UNCHANGED result
          ELSE /\ result' = GenReturn(EmptyHeader, ErrWrite)
               /\ pc' = AfterMachineReadablePart(ErrWrite)
               /\ UNCHANGED <<out, parts>>
    /\ UNCHANGED <<utf8, envelope, mtaInfo, rcptsInfo, failedHeader, entry, idx,
                   reportHeader, smtpLog, sendResult, addrIn, addrOut, rcptIn, rcptOut>>

\* writeMachineReadablePart: mtaInfo.WriteTo
MtaWriteTo ==
    /\ pc = "mta"
    /\ LET r == ReportingMTAInfoWriteTo(utf8, mtaInfo)
       IN \E ok \in SinkOutcomes :
             IF r.err # NilErr
             THEN /\ result' = GenReturn(EmptyHeader, r.err)
                  /\ pc' = AfterMachineReadablePart(r.err)
                  /\ UNCHANGED out
             ELSE IF ok
             THEN /\ out' = Append(out, Chunk("block", WriteHeader(r.h), <<>>))
                  /\ pc' = IF rcptsInfo = <<>> THEN AfterMachineReadablePart(NilErr)
                           ELSE "rcpt"
                  /\ UNCHANGED result
             ELSE /\ result' = GenReturn(EmptyHeader, ErrWrite)
                  /\ pc' = AfterMachineReadablePart(ErrWrite)
                  /\ UNCHANGED out
    /\ idx' = 1
    /\ UNCHANGED <<utf8, envelope, mtaInfo, rcptsInfo, failedHeader, entry, parts,
                   reportHeader, smtpLog, sendResult, addrIn, addrOut, rcptIn, rcptOut>>

\* writeMachineReadablePart: rcpt.WriteTo of one recipient, handed the MTA
\* name, the default when the name is empty
RcptWriteTo ==
    /\ pc = "rcpt"
    /\ LET name == IF mtaInfo.XMTAName = <<>> THEN xMTADefaultName ELSE mtaInfo.XMTAName
           rcpt == [rcptsInfo[idx] EXCEPT !.xMTAName = name]
           r == RecipientInfoWriteTo(utf8, rcpt)
       IN \E ok \in SinkOutcomes :
             IF r.panic
             THEN /\ result' = GenPanic
                  /\ pc' = "close"
                  /\ UNCHANGED <<out, idx>>
             ELSE IF r.err # NilErr
             THEN /\ result' = GenReturn(EmptyHeader, r.err)
                  /\ pc' = AfterMachineReadablePart(r.err)
                  /\ UNCHANGED <<out, idx>>
             ELSE IF ok
             THEN /\ out' = Append(out, Chunk("block", WriteHeader(r.h), <<>>))
                  /\ pc' = IF idx = Len(rcptsInfo) THEN AfterMachineReadablePart(NilErr)
                           ELSE "rcpt"
                  /\ idx' = IF idx = Len(rcptsInfo) THEN 1 ELSE idx + 1
                  /\ UNCHANGED result
             ELSE /\ result' = GenReturn(EmptyHeader, ErrWrite)
                  /\ pc' = AfterMachineReadablePart(ErrWrite)
                  /\ UNCHANGED <<out, idx>>
    /\ UNCHANGED <<utf8, envelope, mtaInfo, rcptsInfo, failedHeader, entry, parts,
                   reportHeader, smtpLog, sendResult, addrIn, addrOut, rcptIn, rcptOut>>

\* writeHeader: CreatePart and the original header block; GenerateDSN returns
\* the top-level header with writeHeader's error
WriteHeaderPart ==
    /\ pc = "headers"
    /\ \E okPart \in SinkOutcomes, okBlock \in SinkOutcomes :
          IF ~okPart
          THEN /\ result' = GenReturn(reportHeader, ErrWrite)
               /\ UNCHANGED <<out, parts>>
          ELSE IF ~okBlock
          THEN /\ out' = Append(out, Chunk("part", WriteHeader(PartHeader(utf8)), <<>>))
               /\ parts' = Append(parts, "headers")
               /\ result' = GenReturn(reportHeader, ErrWrite)
          ELSE /\ out' = out \o <<Chunk("part", WriteHeader(PartHeader(utf8)), <<>>),
                                  Chunk("original", WriteHeader(failedHeader), <<>>)>>
               /\ parts' = Append(parts, "headers")
               /\ result' = GenReturn(reportHeader, NilErr)
    /\ pc' = "close"
    /\ UNCHANGED <<utf8, envelope, mtaInfo, rcptsInfo, failedHeader, entry, idx,
                   reportHeader, smtpLog, sendResult, addrIn, addrOut, rcptIn, rcptOut>>

\* the deferred partWriter.Close(), its error dropped; then GenerateDSN is left
PartWriterClose ==
    /\ pc = "close"
    /\ \E ok \in SinkOutcomes :
          out' = IF ok THEN Append(out, Chunk("end", <<>>, <<>>)) ELSE out
    /\ parts' = Append(parts, "close")
    /\ IF result.state = "panicked"
       THEN /\ pc' = "panicked"
            /\ sendResult' = IF entry = "SendDSN"
                             THEN [state |-> "panicked", err |-> NilErr]
                             ELSE sendResult
       ELSE IF entry = "GenerateDSN"
       THEN /\ pc' = "returned"
            /\ UNCHANGED sendResult
       ELSE IF result.err # NilErr
       THEN /\ pc' = "sendDone"
            /\ sendResult' = [state |-> "returned", err |-> result.err]
       ELSE /\ pc' = "dial"
            /\ UNCHANGED sendResult
    /\ UNCHANGED <<utf8, envelope, mtaInfo, rcptsInfo, failedHeader, entry, idx,
                   reportHeader, result, smtpLog, addrIn, addrOut, rcptIn, rcptOut>>

----------------------------------------------------------------------------
(* SendDSN.  smtpLog holds the calls made on the SMTP client, in order.     *)

SmtpStep(op, arg, ok) == [op |-> op, arg |-> arg, ok |-> ok]

ErrSmtp(op) == <<"smtp: " \o op \o " failed">>

\* SendDSN goes on after a refused greeting
AfterHello_IgnoreError(ok) == "mail"

\* SendDSN after c.Hello: the deferred c.Close() on error, else MAIL
AfterHello(ok) == IF ok THEN "mail" ELSE "cClose"

\* smtpclient.Dial; c.Close() is deferred only once the dial succeeded
Dial ==
    /\ pc = "dial"
    /\ \E ok \in BOOLEAN :
          /\ smtpLog' = Append(smtpLog, SmtpStep("Dial", <<>>, ok))
          /\ IF ok
             THEN pc' = "hello" /\ UNCHANGED sendResult
             ELSE pc' = "sendDone"
                  /\ sendResult' = [state |-> "returned", err |-> ErrSmtp("Dial")]
    /\ UNCHANGED <<utf8, envelope, mtaInfo, rcptsInfo, failedHeader, entry, idx, out,
                   parts, reportHeader, result, addrIn, addrOut, rcptIn, rcptOut>>

\* c.Hello("bla")
Hello ==
    /\ pc = "hello"
    /\ \E ok \in BOOLEAN :
          /\ smtpLog' = Append(smtpLog, SmtpStep("Hello", VHelloName, ok))
          /\ pc' = AfterHello(ok)
          /\ sendResult' = IF ok THEN sendResult
                           ELSE [sendResult EXCEPT !.err = ErrSmtp("Hello")]
    /\ UNCHANGED <<utf8, envelope, mtaInfo, rcptsInfo, failedHeader, entry, idx, out,
                   parts, reportHeader, result, addrIn, addrOut, rcptIn, rcptOut>>

\* c.Mail("<>")
Mail ==
    /\ pc = "mail"
    /\ \E ok \in BOOLEAN :
          /\ smtpLog' = Append(smtpLog, SmtpStep("Mail", VNullSender, ok))
          /\ pc' = IF ~ok THEN "cClose"
                   ELSE IF rcptsInfo = <<>> THEN "data" ELSE "smtpRcpt"
          /\ sendResult' = IF ok THEN sendResult
                           ELSE [sendResult EXCEPT !.err = ErrSmtp("Mail")]
    /\ idx' = 1
    /\ UNCHANGED <<utf8, envelope, mtaInfo, rcptsInfo, failedHeader, entry, out,
                   parts, reportHeader, result, addrIn, addrOut, rcptIn, rcptOut>>

\* c.Rcpt(r.FinalRecipient) of one recipient
Rcpt ==
    /\ pc = "smtpRcpt"
    /\ \E ok \in BOOLEAN :
          /\ smtpLog' = Append(smtpLog, SmtpStep("Rcpt", rcptsInfo[idx].FinalRecipient, ok))
          /\ pc' = IF ~ok THEN "cClose"
                   ELSE IF idx = Len(rcptsInfo) THEN "data" ELSE "smtpRcpt"
          /\ idx' = IF ok /\ idx < Len(rcptsInfo) THEN idx + 1 ELSE idx
          /\ sendResult' = IF ok THEN sendResult
                           ELSE [sendResult EXCEPT !.err = ErrSmtp("Rcpt")]
    /\ UNCHANGED <<utf8, envelope, mtaInfo, rcptsInfo, failedHeader, entry, out,
                   parts, reportHeader, result, addrIn, addrOut, rcptIn, rcptOut>>

\* c.Data()
Data ==
    /\ pc = "data"
    /\ \E ok \in BOOLEAN :
          /\ smtpLog' = Append(smtpLog, SmtpStep("Data", <<>>, ok))
          /\ pc' = IF ok THEN "sendHeader" ELSE "cClose"
          /\ sendResult' = IF ok THEN sendResult
                           ELSE [sendResult EXCEPT !.err = ErrSmtp("Data")]
    /\ UNCHANGED <<utf8, envelope, mtaInfo, rcptsInfo, failedHeader, entry, idx, out,
                   parts, reportHeader, result, addrIn, addrOut, rcptIn, rcptOut>>

\* textproto.WriteHeader(wr, hdr); wr.Close() follows a failure
SendWriteHeader ==
    /\ pc = "sendHeader"
    /\ \E ok \in BOOLEAN :
          /\ smtpLog' = Append(smtpLog,
                            SmtpStep("WriteHeader", HeaderGet(result.hdr, HMessageId), ok))
          /\ pc' = IF ok THEN "sendBody" ELSE "wrClose"
          /\ sendResult' = IF ok THEN sendResult
                           ELSE [sendResult EXCEPT !.err = ErrSmtp("WriteHeader")]
    /\ UNCHANGED <<utf8, envelope, mtaInfo, rcptsInfo, failedHeader, entry, idx, out,
                   parts, reportHeader, result, addrIn, addrOut, rcptIn, rcptOut>>

\* bodyBuf.WriteTo(wr); wr.Close() follows a failure too
SendWriteBody ==
    /\ pc = "sendBody"
    /\ \E ok \in BOOLEAN :
          /\ smtpLog' = Append(smtpLog, SmtpStep("WriteBody", <<>>, ok))
          /\ pc' = "wrClose"
          /\ sendResult' = IF ok THEN sendResult
                           ELSE [sendResult EXCEPT !.err = ErrSmtp("WriteBody")]
    /\ UNCHANGED <<utf8, envelope, mtaInfo, rcptsInfo, failedHeader, entry, idx, out,
                   parts, reportHeader, result, addrIn, addrOut, rcptIn, rcptOut>>

\* wr.Close(): its error is the result only when both writes succeeded
DataClose ==
    /\ pc = "wrClose"
    /\ \E ok \in BOOLEAN :
          /\ smtpLog' = Append(smtpLog, SmtpStep("DataClose", <<>>, ok))
          /\ sendResult' = IF sendResult.err = NilErr /\ ~ok
                           THEN [sendResult EXCEPT !.err = ErrSmtp("DataClose")]
                           ELSE sendResult
    /\ pc' = "cClose"
    /\ UNCHANGED <<utf8, envelope, mtaInfo, rcptsInfo, failedHeader, entry, idx, out,
                   parts, reportHeader, result, addrIn, addrOut, rcptIn, rcptOut>>

\* the deferred c.Close(), its error dropped; then SendDSN returns
ClientClose ==
    /\ pc = "cClose"
    /\ \E ok \in BOOLEAN :
          smtpLog' = Append(smtpLog, SmtpStep("Close", <<>>, ok))
    /\ sendResult' = [sendResult EXCEPT !.state = "returned"]
    /\ pc' = "sendDone"
    /\ UNCHANGED <<utf8, envelope, mtaInfo, rcptsInfo, failedHeader, entry, idx, out,
                   parts, reportHeader, result, addrIn, addrOut, rcptIn, rcptOut>>

Next ==
    \/ GenStart
    \/ HumanCreatePart
    \/ HumanText
    \/ HumanRcptLine
    \/ MachineCreatePart
    \/ MtaWriteTo
    \/ RcptWriteTo
    \/ WriteHeaderPart
    \/ PartWriterClose
    \/ Dial
    \/ Hello
    \/ Mail
    \/ Rcpt
    \/ Data
    \/ SendWriteHeader
    \/ SendWriteBody
    \/ DataClose
    \/ ClientClose

Spec == Init /\ [][Next]_vars

----------------------------------------------------------------------------
(* The address transcoders applied to every short address.                 *)

\* over 'a', '@', '.', DEL (the last 7-bit code point), U+0080, U+00FC
Addresses == SeqsUpTo({97, ChAt, ChDot, 127, RuneSelf, 252}, MaxAddrLen)

NoAddrResult == [done |-> FALSE, ulabel |-> FALSE, val |-> <<>>, err |-> NilErr]

InitAddr ==
    /\ addrIn \in Addresses
    /\ addrOut = NoAddrResult
    /\ utf8 = FALSE /\ entry = "none" /\ envelope = <<>> /\ mtaInfo = <<>>
    /\ rcptsInfo = <<>> /\ failedHeader = <<>> /\ pc = "idle" /\ idx = 1
    /\ out = <<>> /\ parts = <<>> /\ reportHeader = <<>> /\ result = Running
    /\ smtpLog = <<>> /\ sendResult = SendRunning
    /\ rcptIn = <<>> /\ rcptOut = <<>>

\* addrSelectIDNA applied to the address
Transcode ==
    /\ ~addrOut.done
    /\ \E ulabel \in BOOLEAN :
          addrOut' = [done |-> TRUE, ulabel |-> ulabel,
                      val |-> addrSelectIDNA(ulabel, addrIn).val,
                      err |-> addrSelectIDNA(ulabel, addrIn).err]
    /\ UNCHANGED <<addrIn, rcptIn, rcptOut>>
    /\ UNCHANGED genVars

SpecAddr == InitAddr /\ [][Transcode]_vars

----------------------------------------------------------------------------
(* RecipientInfo.WriteTo applied to every recipient record.                *)

\* longest diagnostic message
MaxMsgLen == 2

\* over 'x', CR, LF
Messages == SeqsUpTo({120, ChCR, ChLF}, MaxMsgLen)

AllRcptInfos ==
    [FinalRecipient : {<<>>, Sample.AddrUnicodeDomain, Sample.AddrUnicodeLocal},
     RemoteMTA : {<<>>, Sample.DomASCII},
     Action : {<<>>, ActionFailed},
     Status : {<<0, 0, 0>>, <<4, 2, 10>>},
     DiagnosticCode : {NoDiagnostic}
                      \cup {SMTPError(550, <<5, 1, 1>>, m) : m \in Messages}
                      \cup {PlainError(m) : m \in Messages},
     xMTAName : {<<>>, Sample.LabelMx}]

NoRcptResult == [done |-> FALSE, utf8 |-> FALSE, fields |-> <<>>, err |-> NilErr,
                 panic |-> FALSE]

InitRcpt ==
    /\ rcptIn \in AllRcptInfos
    /\ rcptOut = NoRcptResult
    /\ utf8 = FALSE /\ entry = "none" /\ envelope = <<>> /\ mtaInfo = <<>>
    /\ rcptsInfo = <<>> /\ failedHeader = <<>> /\ pc = "idle" /\ idx = 1
    /\ out = <<>> /\ parts = <<>> /\ reportHeader = <<>> /\ result = Running
    /\ smtpLog = <<>> /\ sendResult = SendRunning
    /\ addrIn = <<>> /\ addrOut = <<>>

\* RecipientInfo.WriteTo into a sink that takes the write
EncodeRecipient ==
    /\ ~rcptOut.done
    /\ \E u \in BOOLEAN :
          LET r == RecipientInfoWriteTo(u, rcptIn)
          IN rcptOut' = [done |-> TRUE, utf8 |-> u, fields |-> WriteHeader(r.h),
                         err |-> r.err, panic |-> r.panic]
    /\ UNCHANGED <<addrIn, addrOut, rcptIn>>
    /\ UNCHANGED genVars

SpecRcpt == InitRcpt /\ [][EncodeRecipient]_vars

----------------------------------------------------------------------------
(* Properties.                                                             *)

IsPrefix(s, t) == Len(s) <= Len(t) /\ SubSeq(t, 1, Len(s)) = s

HasSuffix(s, x) == Len(s) >= Len(x) /\ SubSeq(s, Len(s) - Len(x) + 1, Len(s)) = x

HasField(fields, k) == \E j \in 1..Len(fields) : fields[j].k = k

\* the delivery-status blocks written so far: the reporting-MTA block first
Blocks == SelectSeq(out, LAMBDA c : c.kind = "block")

\* the part headers written so far
PartChunks == SelectSeq(out, LAMBDA c : c.kind = "part")

\* control has left GenerateDSN, deferred Close included
GenLeft == result.state # "running" /\ pc # "close"

MissingMandatory(r) == r.FinalRecipient = <<>> \/ r.Action = <<>> \/ r.Status[1] = 0

ValidationFailure ==
    \/ mtaInfo.ReportingMTA = <<>>
    \/ \E k \in 1..Len(rcptsInfo) : MissingMandatory(rcptsInfo[k])

TranscodingFailure ==
    \/ dnsSelectIDNA(utf8, mtaInfo.ReportingMTA).err # NilErr
    \/ mtaInfo.ReceivedFromMTA # <<>>
       /\ dnsSelectIDNA(utf8, mtaInfo.ReceivedFromMTA).err # NilErr
    \/ mtaInfo.XSender # <<>> /\ addrSelectIDNA(utf8, mtaInfo.XSender).err # NilErr
    \/ \E k \in 1..Len(rcptsInfo) :
          \/ addrSelectIDNA(utf8, rcptsInfo[k].FinalRecipient).err # NilErr
          \/ rcptsInfo[k].RemoteMTA # <<>>
             /\ dnsSelectIDNA(utf8, rcptsInfo[k].RemoteMTA).err # NilErr

\* C1: when reportingMTA is empty and the sink takes every write, GenerateDSN
\* fails with the validation error and the sink has received nothing.
C1_EmptyReportingMTAWritesNothing ==
    (GenLeft /\ mtaInfo.ReportingMTA = <<>> /\ result.err # ErrWrite)
    => /\ result.state = "returned"
       /\ result.err = ErrReportingMTAMandatory
       /\ out = <<>>

\* C2: a successful GenerateDSN returns the populated top-level header whose
\* Message-Id is the envelope's; an input with a validation or transcoding
\* failure makes it return the empty header and an error.
C2_HeaderOrEmptyWithError ==
    GenLeft
    => /\ (result.state = "returned" /\ result.err = NilErr)
          => /\ result.hdr = ReportHeader(envelope)
             /\ HeaderGet(result.hdr, HMessageId) = envelope.MsgID
       /\ (ValidationFailure \/ TranscodingFailure)
          => /\ result.state = "returned"
             /\ result.hdr = EmptyHeader
             /\ result.err # NilErr

\* C3: a recipient with finalRecipient, action and status set and no
\* diagnostic code never makes generation fail while it is encoded, in either
\* mode, and its block carries no Diagnostic-Code field.
C3_NoDiagnosticEncodes ==
    \A k \in 1..Len(rcptsInfo) :
        (~MissingMandatory(rcptsInfo[k]) /\ rcptsInfo[k].DiagnosticCode.kind = "nil")
        => /\ ~(result.state = "panicked" /\ Len(Blocks) = k)
           /\ Len(Blocks) > k => ~HasField(Blocks[k + 1].fields, HDiagnosticCode)

\* the message with one space in the place of every CR and every LF
Spaced(m) == [k \in 1..Len(m) |-> IF m[k] \in {ChCR, ChLF} THEN ChSpace ELSE m[k]]

DiagnosticValues(fields) ==
    LET ds == SelectSeq(fields, LAMBDA f : f.k = HDiagnosticCode)
    IN [j \in 1..Len(ds) |-> ds[j].v]

\* C4: an encoded recipient that carries a diagnostic has exactly the
\* Diagnostic-Code of its case: a structured SMTP error gives
\* "smtp; <code> <class>.<subject>.<detail> <message>" in both modes, any other
\* error gives "X-<mtaLabel>; <message>" in UTF-8 mode and no field in ASCII
\* mode; every CR and every LF of the message is one space.
C4_DiagnosticCodePolicy ==
    (rcptOut.done /\ rcptOut.err = NilErr /\ ~rcptOut.panic
        /\ rcptIn.DiagnosticCode.kind # "nil")
    => LET d == rcptIn.DiagnosticCode
           label == IF rcptIn.xMTAName = <<>> THEN xMTADefaultName ELSE rcptIn.xMTAName
           vals == DiagnosticValues(rcptOut.fields)
       IN /\ d.kind = "smtp"
             => vals = <<StrSmtp \o Itoa(d.code) \o <<ChSpace>> \o Itoa(d.enh[1])
                         \o <<ChDot>> \o Itoa(d.enh[2]) \o <<ChDot>> \o Itoa(d.enh[3])
                         \o <<ChSpace>> \o Spaced(d.msg)>>
          /\ (d.kind = "plain" /\ rcptOut.utf8)
             => vals = <<StrXDash \o TrimSpace(label) \o StrSemi \o Spaced(d.msg)>>
          /\ (d.kind = "plain" /\ ~rcptOut.utf8) => vals = <<>>
          /\ \A k \in 1..Len(Spaced(d.msg)) : Spaced(d.msg)[k] \notin {ChCR, ChLF}

C4_Witness ==
    /\ rcptOut.done /\ rcptOut.utf8 /\ rcptOut.err = NilErr
    /\ rcptIn.DiagnosticCode = PlainError(<<ChCR, ChLF>>)
    /\ rcptIn.xMTAName = Sample.LabelMx
    /\ HasField(rcptOut.fields, HDiagnosticCode)

\* C5: toASCII fails with ErrUnicodeMailbox, the address left as it was, for
\* every address whose local-part holds a code point above 127.
C5_NonASCIILocalPartFails ==
    (addrOut.done /\ ~addrOut.ulabel /\ split(addrIn).err = NilErr
        /\ \E k \in 1..Len(split(addrIn).mailbox) : split(addrIn).mailbox[k] > 127)
    => addrOut.err = ErrUnicodeMailbox /\ addrOut.val = addrIn

PartOrder == <<"human", "machine", "headers">>

\* C6: the parts are created in the order human-readable, machine-readable,
\* original-headers, each once and none before its predecessor; the container
\* is closed last; a successful GenerateDSN has created all three.
C6_PartOrder ==
    /\ IsPrefix(SelectSeq(parts, LAMBDA x : x # "close"), PartOrder)
    /\ \A k \in 1..Len(parts) : parts[k] = "close" => k = Len(parts)
    /\ (result.state = "returned" /\ result.err = NilErr)
       => IsPrefix(PartOrder, parts)
    /\ (GenLeft /\ result.state = "returned" /\ result.err = NilErr)
       => parts = PartOrder \o <<"close">>

C6_Witness ==
    /\ pc = "returned" /\ result.err = NilErr
    /\ parts = <<"human", "machine", "headers", "close">>

\* the place of a field in the enumerated order of its block, 0 for no place
MtaRank(k) ==
    IF k = HReportingMTA THEN 1
    ELSE IF k = HReceivedFromMTA THEN 2
    ELSE IF HasPrefix(k, StrXDash) /\ HasSuffix(k, StrSender) THEN 3
    ELSE IF HasPrefix(k, StrXDash) /\ HasSuffix(k, StrMsgID) THEN 4
    ELSE IF k = HArrivalDate THEN 5
    ELSE IF k = HLastAttemptDate THEN 6
    ELSE 0

RcptRank(k) ==
    IF k = HFinalRecipient THEN 1
    ELSE IF k = HAction THEN 2
    ELSE IF k = HStatus THEN 3
    ELSE IF k = HDiagnosticCode THEN 4
    ELSE IF k = HRemoteMTA THEN 5
    ELSE 0

Increasing(ranks) ==
    /\ \A j \in 1..Len(ranks) : ranks[j] > 0
    /\ \A j \in 1..(Len(ranks) - 1) : ranks[j] < ranks[j + 1]

\* C7: every block is written with its fields in the enumerated order, the
\* reporting-MTA block first and the recipient blocks in list order.
C7_FieldOrder ==
    \A b \in 1..Len(Blocks) :
        IF b = 1
        THEN Increasing([j \in 1..Len(Blocks[1].fields) |-> MtaRank(Blocks[1].fields[j].k)])
        ELSE /\ Increasing([j \in 1..Len(Blocks[b].fields) |->
                               RcptRank(Blocks[b].fields[j].k)])
             /\ \E j \in 1..Len(Blocks[b].fields) :
                   /\ Blocks[b].fields[j].k = HFinalRecipient
                   /\ Blocks[b].fields[j].v =
                         (IF utf8 THEN StrUtf8 ELSE StrRfc822)
                         \o addrSelectIDNA(utf8, rcptsInfo[b - 1].FinalRecipient).val

CloseOps == {"DataClose", "Close"}

\* the steps of the relay sequence before the closing, as (op, arg)
RelaySteps ==
    <<<<"Dial", <<>>>>, <<"Hello", VHelloName>>, <<"Mail", VNullSender>>>>
    \o [k \in 1..Len(rcptsInfo) |-> <<"Rcpt", rcptsInfo[k].FinalRecipient>>]
    \o <<<<"Data", <<>>>>, <<"WriteHeader", envelope.MsgID>>, <<"WriteBody", <<>>>>>>

Issued == SelectSeq(smtpLog, LAMBDA s : s.op \notin CloseOps)

Closings == SelectSeq(smtpLog, LAMBDA s : s.op \in CloseOps)

\* the error SendDSN owes its caller for the calls made: that of the first
\* failed step, the dropped c.Close() aside
OwedError ==
    LET failed == {k \in 1..Len(smtpLog) : ~smtpLog[k].ok /\ smtpLog[k].op # "Close"}
    IN IF failed = {} THEN NilErr
       ELSE ErrSmtp(smtpLog[CHOOSE k \in failed : \A h \in failed : k <= h].op)

\* the part of C8 the code and the claim agree on: the steps are issued in the
\* fixed order, each at most once, MAIL with "<>", RCPT in list order; nothing
\* is issued when generation failed; a failed step is the last of the
\* sequence's steps before the closing; the first failure is the error returned.
RelayOrder ==
    /\ IsPrefix([k \in 1..Len(Issued) |-> <<Issued[k].op, Issued[k].arg>>], RelaySteps)
    /\ \A k \in 1..Len(Issued) : ~Issued[k].ok => k = Len(Issued)
    /\ (result.state # "returned" \/ result.err # NilErr) => smtpLog = <<>>
    /\ (sendResult.state = "returned" /\ smtpLog # <<>>) => sendResult.err = OwedError
    /\ (sendResult.state = "returned" /\ sendResult.err = NilErr)
       => /\ Len(Issued) = Len(RelaySteps)
          /\ [k \in 1..Len(Closings) |-> Closings[k].op] = <<"DataClose", "Close">>

\* C8 as stated: after a failed step no later step of the sequence, the
\* closing included, is issued.
C8_NoStepAfterFailure ==
    /\ RelayOrder
    /\ \A k \in 1..Len(smtpLog) : ~smtpLog[k].ok => k = Len(smtpLog)

\* C8 as amended: after a failed step only closings follow: wr.Close() once
\* the data stream was opened, then the deferred c.Close().
C8_OnlyClosingAfterFailure ==
    /\ RelayOrder
    /\ smtpLog = Issued \o Closings
    /\ IsPrefix([k \in 1..Len(Closings) |-> Closings[k].op], <<"DataClose", "Close">>)
       \/ [k \in 1..Len(Closings) |-> Closings[k].op] = <<"Close">>
    /\ (\E k \in 1..Len(Closings) : Closings[k].op = "DataClose")
       => \E k \in 1..Len(Issued) : Issued[k].op = "Data" /\ Issued[k].ok

C8_Witness ==
    /\ pc = "sendDone" /\ sendResult.err = ErrSmtp("Rcpt")
    /\ Len(rcptsInfo) = 2
    /\ Len(Issued) = 5
    /\ Len(Closings) = 1

UTF8Family == {StrUtf8, VGlobalDeliveryStatus, VGlobalHeaders}
ASCIIFamily == {StrRfc822, VDeliveryStatus, VRfc822Headers}

\* the tags and content types of one family found in a chunk
FamilyMarks(c, family) ==
    {x \in family :
        \E j \in 1..Len(c.fields) :
            \/ c.kind = "part" /\ c.fields[j].k = HContentType /\ c.fields[j].v = x
            \/ /\ c.kind = "block"
               /\ \/ c.fields[j].k = HFinalRecipient
                  \/ HasPrefix(c.fields[j].k, StrXDash) /\ HasSuffix(c.fields[j].k, StrSender)
               /\ HasPrefix(c.fields[j].v, x)}

AddressFields(c) ==
    {j \in 1..Len(c.fields) :
        /\ c.kind = "block"
        /\ \/ c.fields[j].k = HFinalRecipient
           \/ HasPrefix(c.fields[j].k, StrXDash) /\ HasSuffix(c.fields[j].k, StrSender)}

\* C9: in UTF-8 mode every address-typed field is tagged utf8 and the machine
\* and original-headers parts are message/global-delivery-status and
\* message/global-headers; in ASCII mode rfc822, message/delivery-status and
\* message/rfc822-headers; nothing of the other family is in the report.
C9_OneEncodingFamily ==
    /\ \A k \in 1..Len(out) :
          /\ FamilyMarks(out[k], IF utf8 THEN ASCIIFamily ELSE UTF8Family) = {}
          /\ \A j \in AddressFields(out[k]) :
                HasPrefix(out[k].fields[j].v, IF utf8 THEN StrUtf8 ELSE StrRfc822)
    /\ Len(PartChunks) >= 2
       => HeaderGet(PartChunks[2].fields, HContentType)
          = (IF utf8 THEN VGlobalDeliveryStatus ELSE VDeliveryStatus)
    /\ Len(PartChunks) >= 3
       => HeaderGet(PartChunks[3].fields, HContentType)
          = (IF utf8 THEN VGlobalHeaders ELSE VRfc822Headers)

C9_Witness ==
    /\ pc = "returned" /\ utf8 /\ result.err = NilErr
    /\ mtaInfo.XSender # <<>> /\ Len(rcptsInfo) = 2
    /\ Len(PartChunks) = 3 /\ Len(Blocks) = 3

\* C10: the reporting-MTA block has Last-Attempt-Date exactly when arrivalTime
\* is set, whatever lastAttemptTime is, so both date fields or neither.
C10_LastAttemptFollowsArrival ==
    Blocks # <<>>
    => /\ HasField(Blocks[1].fields, HLastAttemptDate) <=> ~IsZero(mtaInfo.ArrivalDate)
       /\ HasField(Blocks[1].fields, HArrivalDate)
          <=> HasField(Blocks[1].fields, HLastAttemptDate)

C10_Witness ==
    /\ Blocks # <<>>
    /\ ~IsZero(mtaInfo.ArrivalDate) /\ IsZero(mtaInfo.LastAttemptDate)
    /\ HasField(Blocks[1].fields, HLastAttemptDate)

====
